---- MODULE Spec2Model ----
(***************************************************************************)
(* Medicine reminder bot (bot.py, handlers.py, database.py): the sweep of  *)
(* scheduler_setup, send_reminder, the SQLite store and the dialogues of   *)
(* the router, as one state machine.                                       *)
(*                                                                         *)
(* Texts typed by a user and texts kept in the store are sequences of      *)
(* one-character strings, so that split, strip, float, int, isdigit, the   *)
(* time regular expression and strptime are computed, not assumed.         *)
(* Numbers produced by float() are kept in hundredths (Scale); the dose    *)
(* texts drawn below have at most two decimals that are exact in binary,   *)
(* so the subtraction of the store is exact as it is for these doubles.    *)
(***************************************************************************)
EXTENDS Integers, Sequences, FiniteSets, TLC

VARIABLES
    users,          \* table users: user_id -> timezone text, "None" when no row
    medicines,      \* table medicines: medicine_id -> row
    next_id,        \* AUTOINCREMENT counter of medicines.medicine_id
    fsm_state,      \* FSMContext state of each chat
    fsm_data,       \* FSMContext data of each chat
    clock,          \* wall clock, seconds since midnight UTC
    pc,             \* position of the scheduler_setup task
    now_utc,        \* scheduler_setup: now_utc of the running sweep
    snapshot,       \* scheduler_setup: medicines, the rows read by the sweep
    idx,            \* scheduler_setup: position of the for loop in snapshot
    slot,           \* scheduler_setup: index (from 1) of the matched reminder time
    now_user_tz,    \* scheduler_setup: now_utc.astimezone(user_timezone)
    dosage_val,     \* send_reminder: amount handed to decrement_medicine_quantity
    outbox,         \* bot.send_message calls that succeeded for that record
    events,         \* send_reminder calls made for that record
    seen,           \* the timezone looked up for the record the sweep is at
    ev,             \* the send_reminder call in progress (what it saw so far)
    last,           \* the send_reminder call that returned last (what it saw)
    warned,         \* medicine_id -> depletion warnings delivered
    answer          \* get_medicine_name_to_delete: its message.answer to the
                    \* message the router handled last

vars == <<users, medicines, next_id, fsm_state, fsm_data, clock, pc, now_utc,
          snapshot, idx, slot, now_user_tz, dosage_val, outbox, events, seen,
          ev, last, warned, answer>>

store_vars == <<users, medicines, next_id>>
fsm_vars == <<fsm_state, fsm_data>>
sweep_vars == <<pc, now_utc, snapshot, idx, slot, now_user_tz, dosage_val,
                outbox, events, seen, ev, last, warned>>

-----------------------------------------------------------------------------
(* Bounds of the model *)

\* rows the medicines table ever receives (caps AUTOINCREMENT)
MaxRecords == 1

\* the largest remaining_quantity (in units) the store is let to reach: a
\* negative dose makes the UPDATE of decrement_medicine_quantity add
MaxRemaining == 3

\* minutes of wall clock a run of SpecSweep covers after its first sweep
MaxWindow == 4

-----------------------------------------------------------------------------
(* Program constants *)

\* asyncio.sleep(60)
SleepSeconds == 60

\* one decimal digit per position of a text
Base == 10

\* float(): values are kept in hundredths
Scale == 100

HourSeconds == 60 * 60
DaySeconds == 24 * HourSeconds
DayMinutes == 24 * 60

-----------------------------------------------------------------------------
(* Python text functions *)

DigitChars == <<"0", "1", "2", "3", "4", "5", "6", "7", "8", "9">>

IsDigitChar(c) == \E i \in 1..Len(DigitChars) : DigitChars[i] = c

DigitVal(c) == (CHOOSE i \in 1..Len(DigitChars) : DigitChars[i] = c) - 1

\* str.isdigit()
isdigit(s) == Len(s) > 0 /\ \A i \in 1..Len(s) : IsDigitChar(s[i])

RECURSIVE DigitsVal(_)
\* the value of a run of decimal digits
DigitsVal(s) ==
    IF s = <<>> THEN 0
    ELSE Base * DigitsVal(SubSeq(s, 1, Len(s) - 1)) + DigitVal(s[Len(s)])

\* int(text) of a text that passed isdigit()
int(s) == DigitsVal(s)

RECURSIVE lstrip(_, _)
lstrip(s, c) == IF s # <<>> /\ Head(s) = c THEN lstrip(Tail(s), c) ELSE s

RECURSIVE rstrip(_, _)
rstrip(s, c) ==
    IF s # <<>> /\ s[Len(s)] = c THEN rstrip(SubSeq(s, 1, Len(s) - 1), c) ELSE s

\* str.strip(): blanks off both ends
strip(s) == rstrip(lstrip(s, " "), " ")

RECURSIVE split(_, _)
\* str.split(sep): always at least one piece
split(s, sep) ==
    IF \E i \in 1..Len(s) : s[i] = sep
    THEN LET i == CHOOSE j \in 1..Len(s) :
                      s[j] = sep /\ \A k \in 1..(j - 1) : s[k] # sep
         IN  <<SubSeq(s, 1, i - 1)>> \o split(SubSeq(s, i + 1, Len(s)), sep)
    ELSE <<s>>

\* [x.strip() for x in text.split(',')]
SplitStrip(s) == LET p == split(s, ",") IN [i \in 1..Len(p) |-> strip(p[i])]

Contains(s, c) == \E i \in 1..Len(s) : s[i] = c

\* float(text): an optional sign, digits, an optional point and digits.
\* ok = FALSE is ValueError. val is the number in hundredths.
float(t) ==
    LET s == strip(t)
        signed == s # <<>> /\ Head(s) \in {"-", "+"}
        body == IF signed THEN Tail(s) ELSE s
        parts == split(body, ".")
        whole == parts[1]
        frac == IF Len(parts) = 2 THEN parts[2] ELSE <<>>
        wellformed ==
            /\ Len(parts) <= 2
            /\ Len(whole) + Len(frac) > 0
            /\ \A i \in 1..Len(whole) : IsDigitChar(whole[i])
            /\ \A i \in 1..Len(frac) : IsDigitChar(frac[i])
        d1 == IF Len(frac) >= 1 THEN DigitVal(frac[1]) ELSE 0
        d2 == IF Len(frac) >= 2 THEN DigitVal(frac[2]) ELSE 0
        mag == Scale * DigitsVal(whole) + Base * d1 + d2
    IN  IF wellformed
        THEN [ok |-> TRUE, val |-> IF signed /\ Head(s) = "-" THEN 0 - mag ELSE mag]
        ELSE [ok |-> FALSE, val |-> 0]

\* re.match(r"^([0-9]|[01][0-9]|2[0-3]):[0-5][0-9]$", text)
MatchesTimeFormat(s) ==
    \/ /\ Len(s) = 4
       /\ IsDigitChar(s[1])
       /\ s[2] = ":"
       /\ s[3] \in {"0", "1", "2", "3", "4", "5"}
       /\ IsDigitChar(s[4])
    \/ /\ Len(s) = 5
       /\ \/ s[1] \in {"0", "1"} /\ IsDigitChar(s[2])
          \/ s[1] = "2" /\ s[2] \in {"0", "1", "2", "3"}
       /\ s[3] = ":"
       /\ s[4] \in {"0", "1", "2", "3", "4", "5"}
       /\ IsDigitChar(s[5])

\* datetime.strptime(text, "%H:%M").time(): one or two digits each side of ':'.
\* ok = FALSE is ValueError.
strptime(s) ==
    LET p == split(s, ":")
        good ==
            /\ Len(p) = 2
            /\ isdigit(p[1]) /\ Len(p[1]) <= 2 /\ DigitsVal(p[1]) < 24
            /\ isdigit(p[2]) /\ Len(p[2]) <= 2 /\ DigitsVal(p[2]) < 60
    IN  IF good
        THEN [ok |-> TRUE, hour |-> DigitsVal(p[1]), minute |-> DigitsVal(p[2])]
        ELSE [ok |-> FALSE, hour |-> 0, minute |-> 0]

-----------------------------------------------------------------------------
(* database.py *)

UserIds == {1, 2}

\* the row of users is missing, or cursor.fetchone() is None
NoTimezone == "None"

\* get_user_timezone as it would be with a default zone for the users that have
\* no row
get_user_timezone_or_default(user_id) ==
    IF users[user_id] = NoTimezone THEN "Europe/Moscow" ELSE users[user_id]

\* get_user_timezone(user_id)
get_user_timezone(user_id) == users[user_id]

\* set_user_timezone(user_id, timezone): INSERT OR REPLACE
set_user_timezone(user_id, timezone) == [users EXCEPT ![user_id] = timezone]

\* the row add_medicine inserts: remaining_quantity starts at doses_quantity
NewRow(user_id, name, dosage, dosage_unit, doses_quantity, reminder_time) ==
    [user_id |-> user_id, name |-> name, dosage |-> dosage,
     dosage_unit |-> dosage_unit, doses_quantity |-> doses_quantity,
     reminder_time |-> reminder_time,
     remaining_quantity |-> Scale * doses_quantity]

\* add_medicine as it would be without AUTOINCREMENT: the id is one more than
\* the largest id in the table
add_medicine_by_rowid(user_id, name, dosage, dosage_unit, doses_quantity, reminder_time) ==
    LET largest == CHOOSE i \in DOMAIN medicines \cup {0} :
                        \A j \in DOMAIN medicines : j <= i
    IN  medicines @@ ((largest + 1) :> NewRow(user_id, name, dosage, dosage_unit,
                                             doses_quantity, reminder_time))

\* add_medicine(...): INSERT, the id is the AUTOINCREMENT counter
add_medicine(user_id, name, dosage, dosage_unit, doses_quantity, reminder_time) ==
    medicines @@ (next_id :> NewRow(user_id, name, dosage, dosage_unit,
                                    doses_quantity, reminder_time))

RECURSIVE RowsFrom(_, _)
\* the rows of table t with medicine_id >= i, in rowid order
RowsFrom(t, i) ==
    IF \A j \in DOMAIN t : j < i THEN <<>>
    ELSE IF i \in DOMAIN t
         THEN <<[medicine_id |-> i, user_id |-> t[i].user_id, name |-> t[i].name,
                 dosage |-> t[i].dosage, dosage_unit |-> t[i].dosage_unit,
                 reminder_time |-> t[i].reminder_time,
                 remaining_quantity |-> t[i].remaining_quantity]>>
              \o RowsFrom(t, i + 1)
         ELSE RowsFrom(t, i + 1)

\* get_all_medicines_with_time(): SELECT ... FROM medicines
get_all_medicines_with_time == RowsFrom(medicines, 1)

\* get_medicine_by_id(medicine_id) is not None
HasMedicine(medicine_id) == medicine_id \in DOMAIN medicines

\* decrement_medicine_quantity as it would be if the new value were computed
\* from the row the sweep read, not from the row in the table
decrement_from_snapshot(medicine_id, amount) ==
    [i \in DOMAIN medicines |->
        IF i = medicine_id
        THEN [medicines[i] EXCEPT
                !.remaining_quantity = snapshot[idx].remaining_quantity - amount]
        ELSE medicines[i]]

\* decrement_medicine_quantity(medicine_id, amount): UPDATE ... WHERE medicine_id = ?
decrement_medicine_quantity(medicine_id, amount) ==
    [i \in DOMAIN medicines |->
        IF i = medicine_id
        THEN [medicines[i] EXCEPT !.remaining_quantity = @ - amount]
        ELSE medicines[i]]

\* delete_medicine(medicine_id): DELETE ... WHERE medicine_id = ?
delete_medicine(medicine_id) ==
    [i \in DOMAIN medicines \ {medicine_id} |-> medicines[i]]

\* the rows DELETE ... WHERE user_id = ? AND name = ? removes
RowsByNameAndUser(user_id, medicine_name) ==
    {i \in DOMAIN medicines :
        medicines[i].user_id = user_id /\ medicines[i].name = medicine_name}

\* the rows DELETE ... WHERE name = ? would match
RowsByName(user_id, medicine_name) ==
    {i \in DOMAIN medicines : medicines[i].name = medicine_name}

\* the rows of DELETE FROM medicines WHERE user_id = ? AND name = ?
DeletedRows(user_id, medicine_name) == RowsByNameAndUser(user_id, medicine_name)

\* delete_medicine_by_name_and_user(user_id, medicine_name): the table afterwards
delete_medicine_by_name_and_user(user_id, medicine_name) ==
    [i \in DOMAIN medicines \ DeletedRows(user_id, medicine_name) |->
        medicines[i]]

\* delete_medicine_by_name_and_user(user_id, medicine_name): cursor.rowcount > 0
deleted_by_name_and_user(user_id, medicine_name) ==
    Cardinality(DeletedRows(user_id, medicine_name)) > 0

-----------------------------------------------------------------------------
(* bot.py: scheduler_setup and send_reminder *)

\* pytz: the UTC offset, in minutes, of the zones the resolver returns here
\* (none of them has daylight saving time)
UtcOffsetMinutes(tz) ==
    CASE tz = "Europe/Moscow" -> 180
      [] tz = "Asia/Kolkata" -> 330
      [] OTHER -> 0

\* astimezone as it would be if the zone were ignored: the UTC hour and minute
astimezone_utc(t, tz) ==
    [hour |-> (t % DaySeconds) \div HourSeconds, minute |-> (t % HourSeconds) \div 60]

\* now_utc.astimezone(user_timezone): the local hour and minute
astimezone(t, tz) ==
    LET local == (t + 60 * UtcOffsetMinutes(tz)) % DaySeconds
    IN  [hour |-> local \div HourSeconds, minute |-> (local % HourSeconds) \div 60]

\* [datetime.strptime(rt.strip(), "%H:%M").time() for rt in reminder_time_str.split(',')]
reminder_times(reminder_time_str) ==
    LET p == SplitStrip(reminder_time_str) IN [i \in 1..Len(p) |-> strptime(p[i])]

\* the comprehension above raises ValueError
BadReminderTimes(reminder_time_str) ==
    LET t == reminder_times(reminder_time_str)
    IN  \E i \in 1..Len(t) : ~t[i].ok

\* TimeMatches as it would be if only the hours were compared
TimeMatchesHour(local, reminder_time) == local.hour = reminder_time.hour

\* now_user_tz.hour == reminder_time.hour and now_user_tz.minute == reminder_time.minute
TimeMatches(local, reminder_time) ==
    local.hour = reminder_time.hour /\ local.minute = reminder_time.minute

\* the marker used when a record has no dose at all
Unspecified == <<"?">>

\* dose_to_send as it would be if the index were ignored: the first dose
dose_to_send_first(dosages, index) ==
    IF Len(dosages) > 0 THEN dosages[1] ELSE Unspecified

\* dosages[index] if index < len(dosages) else dosages[-1] if dosages else marker
\* (index counts from 0)
dose_to_send(dosages, index) ==
    IF index < Len(dosages) THEN dosages[index + 1]
    ELSE IF Len(dosages) > 0 THEN dosages[Len(dosages)]
    ELSE Unspecified

\* dosage_str as it would be without the test for a point
dosage_str_any(medicine_dosage) == rstrip(rstrip(medicine_dosage, "0"), ".")

\* medicine_dosage.rstrip('0').rstrip('.') if '.' in medicine_dosage else medicine_dosage
dosage_str(medicine_dosage) ==
    IF Contains(medicine_dosage, ".")
    THEN rstrip(rstrip(medicine_dosage, "0"), ".")
    ELSE medicine_dosage

SendReminderPcs == {"send_message", "get_medicine_by_id", "decrement",
                    "get_updated", "send_warning", "delete_medicine"}

NoEvent == [medicine_id |-> 0, had |-> FALSE, before |-> 0, amount |-> 0,
            sent |-> FALSE, raised |-> "", removed |-> FALSE]

\* what a send_reminder call starts from: the row as the store (table) has it
NewEvent(table, row, dose) ==
    [medicine_id |-> row.medicine_id,
     had |-> row.medicine_id \in DOMAIN table,
     before |-> IF row.medicine_id \in DOMAIN table
                THEN table[row.medicine_id].remaining_quantity ELSE 0,
     amount |-> float(dose).val,
     sent |-> FALSE, raised |-> "", removed |-> FALSE]

\* the call of send_reminder for slot k of snapshot row i
DueEvent(snap, i, k) ==
    [row |-> i, medicine_id |-> snap[i].medicine_id, user_id |-> snap[i].user_id,
     slot |-> k, dose |-> dose_to_send(SplitStrip(snap[i].dosage), k - 1)]

\* AfterRecord as it would be if the loop came round without its sleep
AfterRecordNoSleep(snap, i) == IF i < Len(snap) THEN "get_user_timezone" ELSE "now"

\* where the task goes after row i of the snapshot: the next iteration of the
\* for loop of line 79, or the sleep of line 95 after the last one
AfterRecord(snap, i) == IF i < Len(snap) THEN "get_user_timezone" ELSE "sleep"

RECURSIVE Advance(_, _, _, _, _)
\* The for loops of scheduler_setup from slot k of snapshot row i on, up to the
\* next await: the slots whose time matches call send_reminder; a call whose
\* float(medicine_dosage) raises returns at once (its except clause) and the
\* loop goes on; the first call that reaches bot.send_message stops here.
Advance(snap, i, local, k, evs) ==
    LET times == reminder_times(snap[i].reminder_time)
        e == DueEvent(snap, i, k)
    IN  IF k > Len(times)
        THEN [pc |-> AfterRecord(snap, i),
              idx |-> i + 1, slot |-> 0, events |-> evs]
        ELSE IF TimeMatches(local, times[k])
             THEN IF float(e.dose).ok
                  THEN [pc |-> "send_message", idx |-> i, slot |-> k,
                        events |-> Append(evs, e)]
                  ELSE Advance(snap, i, local, k + 1, Append(evs, e))
             ELSE Advance(snap, i, local, k + 1, evs)

\* the position after Advance, and the send_reminder call it may have begun
\* (table: the medicines table at that moment)
Goto(r, table) ==
    /\ pc' = r.pc
    /\ idx' = r.idx
    /\ slot' = r.slot
    /\ events' = r.events
    /\ ev' = IF r.pc = "send_message"
             THEN NewEvent(table, snapshot[r.idx], r.events[Len(r.events)].dose)
             ELSE NoEvent

\* Return as it would be without the except clause of send_reminder: what a
\* call raises leaves scheduler_setup
ReturnOrRaise(final, table) ==
    IF final.raised # ""
    THEN /\ pc' = "store_error"
         /\ UNCHANGED <<idx, slot, events, ev, last, now_user_tz, dosage_val,
                        now_utc, snapshot, seen>>
    ELSE /\ last' = final
         /\ dosage_val' = 0
         /\ Goto(Advance(snapshot, idx, now_user_tz, slot + 1, events), table)
         /\ UNCHANGED <<now_utc, snapshot, now_user_tz, seen>>

\* send_reminder returns (normally, or through its except clause); table is
\* the medicines table it leaves
Return(final, table) ==
    /\ last' = final
    /\ dosage_val' = 0
    /\ Goto(Advance(snapshot, idx, now_user_tz, slot + 1, events), table)
    /\ UNCHANGED <<now_utc, snapshot, now_user_tz, seen>>

\* send_reminder goes on to its next await
Continue(next_pc) ==
    /\ pc' = next_pc
    /\ last' = NoEvent
    /\ UNCHANGED <<idx, slot, events, now_utc, snapshot, now_user_tz, seen>>

\* where the task is once an exception has left scheduler_setup: the store
\* call of the sweep raised, or strptime raised ValueError
CrashedPcs == {"store_error", "value_error"}

\* an exception leaves scheduler_setup: nothing in the loop catches it, and
\* the task created in main ends
Crash(exception) ==
    /\ pc' = exception
    /\ UNCHANGED <<idx, slot, events, ev, last, now_user_tz, dosage_val, outbox,
                   seen, warned, snapshot>>

\* lines 75-77: read the clock and the whole table
SweepStart(ok) ==
    /\ pc = "now"
    /\ now_utc' = clock
    /\ IF ok
       THEN /\ snapshot' = get_all_medicines_with_time
            /\ pc' = IF Len(snapshot') > 0 THEN "get_user_timezone" ELSE "sleep"
            /\ UNCHANGED <<idx, slot, events, outbox, seen, ev, last, now_user_tz,
                           dosage_val, warned>>
       ELSE Crash("store_error")
    /\ UNCHANGED <<store_vars, fsm_vars, answer, clock>>

\* lines 80-93: one record of the snapshot, up to the first await of send_reminder.
\* events, outbox and seen record what the sweep does for this record.
LookupTimezone(ok) ==
    /\ pc = "get_user_timezone"
    /\ LET row == snapshot[idx]
           user_timezone_str == get_user_timezone(row.user_id)
       IN  IF ~ok
           THEN Crash("store_error") /\ UNCHANGED now_utc
           ELSE IF user_timezone_str # NoTimezone /\ BadReminderTimes(row.reminder_time)
           THEN Crash("value_error") /\ UNCHANGED now_utc
           ELSE /\ seen' = user_timezone_str
                /\ outbox' = <<>>
                /\ last' = NoEvent
                /\ IF user_timezone_str # NoTimezone
                   THEN /\ now_user_tz' = astimezone(now_utc, user_timezone_str)
                        /\ Goto(Advance(snapshot, idx, now_user_tz', 1, <<>>), medicines)
                   ELSE /\ pc' = AfterRecord(snapshot, idx)
                        /\ idx' = idx + 1
                        /\ events' = <<>>
                        /\ UNCHANGED <<slot, ev, now_user_tz>>
                /\ UNCHANGED <<now_utc, snapshot, dosage_val, warned>>
    /\ UNCHANGED <<store_vars, fsm_vars, answer, clock>>

\* the row of the send_reminder call in progress
Cur == snapshot[idx]

\* the dose text of the send_reminder call in progress
medicine_dosage == events[Len(events)].dose

\* the message of line 44 and the one of line 60
Message(kind) ==
    [kind |-> kind, to |-> Cur.user_id, medicine_id |-> Cur.medicine_id,
     slot |-> slot,
     dose |-> IF kind = "reminder" THEN dosage_str(medicine_dosage) ELSE <<>>,
     unit |-> IF kind = "reminder" THEN Cur.dosage_unit ELSE "",
     name |-> Cur.name]

\* SendReminderMessage as it would be if a failed send were swallowed on the
\* spot and the call went on to its re-fetch
SendReminderMessageGoingOn(ok) ==
    /\ pc = "send_message"
    /\ outbox' = IF ok THEN Append(outbox, Message("reminder")) ELSE outbox
    /\ ev' = [ev EXCEPT !.sent = ok]
    /\ Continue("get_medicine_by_id")
    /\ UNCHANGED dosage_val
    /\ UNCHANGED <<store_vars, fsm_vars, answer, clock, warned>>

\* line 45: await bot.send_message(user_id, reminder_message)
SendReminderMessage(ok) ==
    /\ pc = "send_message"
    /\ IF ok
       THEN /\ outbox' = Append(outbox, Message("reminder"))
            /\ ev' = [ev EXCEPT !.sent = TRUE]
            /\ Continue("get_medicine_by_id")
            /\ UNCHANGED dosage_val
       ELSE /\ Return([ev EXCEPT !.raised = "send_message"], medicines)
            /\ UNCHANGED outbox
    /\ UNCHANGED <<store_vars, fsm_vars, answer, clock, warned>>

\* float(medicine_dosage) of line 53, 1 when it raises ValueError
DecrementAmount(dose) == IF float(dose).ok THEN float(dose).val ELSE Scale

\* HasStock as it would be without the test of line 50
HasStockAlways(remaining_quantity) == TRUE

\* HasStock as it would be with a comparison that lets zero through
HasStockOrZero(remaining_quantity) == remaining_quantity >= 0

\* line 50: current_remaining_quantity > 0
HasStock(remaining_quantity) == remaining_quantity > 0

\* lines 47-55: medicine_info = await get_medicine_by_id(medicine_id)
GetMedicineInfo(ok) ==
    /\ pc = "get_medicine_by_id"
    /\ IF ~ok
       THEN Return([ev EXCEPT !.raised = "get_medicine_by_id"], medicines)
       ELSE IF HasMedicine(Cur.medicine_id)
                 /\ HasStock(medicines[Cur.medicine_id].remaining_quantity)
            THEN /\ dosage_val' = DecrementAmount(medicine_dosage)
                 /\ Continue("decrement")
                 /\ UNCHANGED ev
            ELSE Return(ev, medicines)
    /\ UNCHANGED <<store_vars, fsm_vars, answer, clock, outbox, warned>>

\* line 57: await decrement_medicine_quantity(medicine_id, dosage_val)
DecrementQuantity(ok) ==
    /\ pc = "decrement"
    /\ HasMedicine(Cur.medicine_id) =>
            medicines[Cur.medicine_id].remaining_quantity - dosage_val
                <= Scale * MaxRemaining
    /\ IF ok
       THEN /\ medicines' = decrement_medicine_quantity(Cur.medicine_id, dosage_val)
            /\ Continue("get_updated")
            /\ UNCHANGED <<ev, dosage_val>>
       ELSE /\ Return([ev EXCEPT !.raised = "decrement_medicine_quantity"], medicines)
            /\ UNCHANGED medicines
    /\ UNCHANGED <<users, next_id, fsm_vars, answer, clock, outbox, warned>>

\* IsDepleted as it would be with a strict comparison
IsDepletedStrict(remaining_quantity) == remaining_quantity < 0

\* line 59: updated_medicine_info[5] <= 0
IsDepleted(remaining_quantity) == remaining_quantity <= 0

\* FoundDepleted as it would be if a record that is not found counted as
\* exhausted
MissingOrDepleted(medicine_id) ==
    \/ ~HasMedicine(medicine_id)
    \/ IsDepleted(medicines[medicine_id].remaining_quantity)

\* line 59: updated_medicine_info and updated_medicine_info[5] <= 0
FoundDepleted(medicine_id) ==
    /\ HasMedicine(medicine_id)
    /\ IsDepleted(medicines[medicine_id].remaining_quantity)

\* lines 58-59: updated_medicine_info = await get_medicine_by_id(medicine_id)
GetUpdatedInfo(ok) ==
    /\ pc = "get_updated"
    /\ IF ~ok
       THEN Return([ev EXCEPT !.raised = "get_updated"], medicines)
       ELSE IF FoundDepleted(Cur.medicine_id)
            THEN Continue("send_warning") /\ UNCHANGED <<ev, dosage_val>>
            ELSE Return(ev, medicines)
    /\ UNCHANGED <<store_vars, fsm_vars, answer, clock, outbox, warned>>

\* SendDepletionWarning as it would be if a failed send of the warning were
\* swallowed and the call went on to delete the record
SendDepletionWarningGoingOn(ok) ==
    /\ pc = "send_warning"
    /\ outbox' = IF ok THEN Append(outbox, Message("depleted")) ELSE outbox
    /\ warned' = IF ok THEN [warned EXCEPT ![Cur.medicine_id] = @ + 1] ELSE warned
    /\ Continue("delete_medicine")
    /\ UNCHANGED <<ev, dosage_val>>
    /\ UNCHANGED <<store_vars, fsm_vars, answer, clock>>

\* line 60: await bot.send_message(user_id, the depletion warning)
SendDepletionWarning(ok) ==
    /\ pc = "send_warning"
    /\ IF ok
       THEN /\ outbox' = Append(outbox, Message("depleted"))
            /\ warned' = [warned EXCEPT ![Cur.medicine_id] = @ + 1]
            /\ Continue("delete_medicine")
            /\ UNCHANGED <<ev, dosage_val>>
       ELSE /\ Return([ev EXCEPT !.raised = "send_warning"], medicines)
            /\ UNCHANGED <<outbox, warned>>
    /\ UNCHANGED <<store_vars, fsm_vars, answer, clock>>

\* line 61: await delete_medicine(medicine_id)
DeleteDepleted(ok) ==
    /\ pc = "delete_medicine"
    /\ IF ok
       THEN /\ medicines' = delete_medicine(Cur.medicine_id)
            /\ Return(ev, delete_medicine(Cur.medicine_id))
       ELSE /\ Return([ev EXCEPT !.raised = "delete_medicine"], medicines)
            /\ UNCHANGED medicines
    /\ UNCHANGED <<users, next_id, fsm_vars, answer, clock, outbox, warned>>

\* line 95: await asyncio.sleep(60); the clock reads `elapsed` seconds more
\* when the loop comes round. The locals of the finished iteration are dead
\* and the record of what the sweep did starts afresh.
asyncio_sleep(elapsed) ==
    /\ pc = "sleep"
    /\ elapsed >= SleepSeconds
    /\ clock' = (clock + elapsed) % DaySeconds
    /\ pc' = "now"
    /\ snapshot' = <<>>
    /\ idx' = 1
    /\ slot' = 0
    /\ now_user_tz' = [hour |-> 0, minute |-> 0]
    /\ dosage_val' = 0
    /\ outbox' = <<>>
    /\ events' = <<>>
    /\ seen' = ""
    /\ last' = NoEvent
    /\ UNCHANGED <<store_vars, fsm_vars, answer, now_utc, ev, warned>>

-----------------------------------------------------------------------------
(* handlers.py: the router. A message goes to the first handler registered *)
(* whose filters accept it, so a handler's guard also excludes the states  *)
(* of the handlers registered before it.                                   *)

NoState == "None"

\* no answer of get_medicine_name_to_delete to the last message
NoAnswer == [to |-> 0, kind |-> "", name |-> ""]

AddMedicineStates == {"WAITING_FOR_NAME", "WAITING_FOR_DOSAGE",
                      "WAITING_FOR_DOSAGE_UNIT", "WAITING_FOR_QUANTITY",
                      "WAITING_FOR_TIMES"}

\* F.text.in_({...}): the three labels of the keyboard (Таблетки, гр, мл)
DosageUnits == {"Tabletki", "gr", "ml"}

\* FSMContext data with no key set
NoData == [medicine_name |-> "", medicine_dosage |-> <<>>,
           medicine_dosage_unit |-> "", medicine_quantity |-> -1,
           medicine_time |-> <<>>]

\* state.clear(): the state and the data
Clear(u) ==
    /\ fsm_state' = [fsm_state EXCEPT ![u] = NoState]
    /\ fsm_data' = [fsm_data EXCEPT ![u] = NoData]

\* /start
command_start_handler(u) ==
    /\ fsm_state' = [fsm_state EXCEPT ![u] = "WAITING_FOR_LOCATION"]
    /\ answer' = NoAnswer
    /\ UNCHANGED <<store_vars, fsm_data, clock, sweep_vars>>

\* /timezone
timezone_command_handler(u) ==
    /\ fsm_state' = [fsm_state EXCEPT ![u] = "WAITING_FOR_LOCATION"]
    /\ answer' = NoAnswer
    /\ UNCHANGED <<store_vars, fsm_data, clock, sweep_vars>>

\* a location in WAITING_FOR_LOCATION; timezone is what get_timezone_from_location
\* returns (NoTimezone: None, or it raised)
location_handler(u, timezone) ==
    /\ fsm_state[u] = "WAITING_FOR_LOCATION"
    /\ users' = IF timezone # NoTimezone THEN set_user_timezone(u, timezone) ELSE users
    /\ Clear(u)
    /\ answer' = NoAnswer
    /\ UNCHANGED <<medicines, next_id, clock, sweep_vars>>

\* add_medicine_command_handler as it would be without the test of the
\* timezone
add_medicine_command_handler_unchecked(u) ==
    /\ fsm_state[u] # "WAITING_FOR_LOCATION"
    /\ fsm_state' = [fsm_state EXCEPT ![u] = "WAITING_FOR_NAME"]
    /\ answer' = NoAnswer
    /\ UNCHANGED <<store_vars, fsm_data, clock, sweep_vars>>

\* /add
add_medicine_command_handler(u) ==
    /\ fsm_state[u] # "WAITING_FOR_LOCATION"
    /\ fsm_state' = IF get_user_timezone(u) = NoTimezone THEN fsm_state
                    ELSE [fsm_state EXCEPT ![u] = "WAITING_FOR_NAME"]
    /\ answer' = NoAnswer
    /\ UNCHANGED <<store_vars, fsm_data, clock, sweep_vars>>

\* a text in WAITING_FOR_NAME
get_medicine_name(u, text) ==
    /\ fsm_state[u] = "WAITING_FOR_NAME"
    /\ fsm_data' = [fsm_data EXCEPT ![u].medicine_name = text]
    /\ fsm_state' = [fsm_state EXCEPT ![u] = "WAITING_FOR_DOSAGE"]
    /\ answer' = NoAnswer
    /\ UNCHANGED <<store_vars, clock, sweep_vars>>

\* every piece of the dose text passes float()
DosagesAreNumbers(text) ==
    LET dosages == SplitStrip(text)
    IN  \A i \in 1..Len(dosages) : float(dosages[i]).ok

\* a text in WAITING_FOR_DOSAGE
get_medicine_dosage(u, text) ==
    /\ fsm_state[u] = "WAITING_FOR_DOSAGE"
    /\ IF DosagesAreNumbers(text)
       THEN /\ fsm_data' = [fsm_data EXCEPT ![u].medicine_dosage = text]
            /\ fsm_state' = [fsm_state EXCEPT ![u] = "WAITING_FOR_DOSAGE_UNIT"]
       ELSE UNCHANGED fsm_vars
    /\ answer' = NoAnswer
    /\ UNCHANGED <<store_vars, clock, sweep_vars>>

\* one of the three labels in WAITING_FOR_DOSAGE_UNIT
get_dosage_unit(u, text) ==
    /\ fsm_state[u] = "WAITING_FOR_DOSAGE_UNIT"
    /\ text \in DosageUnits
    /\ fsm_data' = [fsm_data EXCEPT ![u].medicine_dosage_unit = text]
    /\ fsm_state' = [fsm_state EXCEPT ![u] = "WAITING_FOR_QUANTITY"]
    /\ answer' = NoAnswer
    /\ UNCHANGED <<store_vars, clock, sweep_vars>>

\* anything else in WAITING_FOR_DOSAGE_UNIT
wrong_dosage_unit_handler(u, text) ==
    /\ fsm_state[u] = "WAITING_FOR_DOSAGE_UNIT"
    /\ text \notin DosageUnits
    /\ answer' = NoAnswer
    /\ UNCHANGED <<store_vars, fsm_vars, clock, sweep_vars>>

\* a text in WAITING_FOR_QUANTITY
get_medicine_quantity(u, text) ==
    /\ fsm_state[u] = "WAITING_FOR_QUANTITY"
    /\ IF isdigit(text)
       THEN /\ fsm_data' = [fsm_data EXCEPT ![u].medicine_quantity = int(text)]
            /\ fsm_state' = [fsm_state EXCEPT ![u] = "WAITING_FOR_TIMES"]
       ELSE UNCHANGED fsm_vars
    /\ answer' = NoAnswer
    /\ UNCHANGED <<store_vars, clock, sweep_vars>>

\* every piece of the times text matches time_format
TimesAreValid(text) ==
    LET times == SplitStrip(text)
    IN  \A i \in 1..Len(times) : MatchesTimeFormat(times[i])

\* CountsMatch as it would be without the comparison of the two lengths
CountsNotCompared(dosage_text, time_text) == TRUE

\* len(dosages_list) != len(times_list) is false
CountsMatch(dosage_text, time_text) ==
    Len(SplitStrip(dosage_text)) = Len(SplitStrip(time_text))

\* get_medicine_time as it would be without the state.clear() of its last line
get_medicine_time_keeping_state(u, text) ==
    /\ fsm_state[u] = "WAITING_FOR_TIMES"
    /\ IF ~TimesAreValid(text)
       THEN UNCHANGED <<fsm_vars, medicines, next_id>>
       ELSE LET data == [fsm_data[u] EXCEPT !.medicine_time = text]
            IN  /\ fsm_data' = [fsm_data EXCEPT ![u] = data]
                /\ fsm_state' = fsm_state
                /\ IF ~CountsMatch(data.medicine_dosage, data.medicine_time)
                   THEN UNCHANGED <<medicines, next_id>>
                   ELSE /\ medicines' = add_medicine(u, data.medicine_name,
                               data.medicine_dosage, data.medicine_dosage_unit,
                               data.medicine_quantity, data.medicine_time)
                        /\ next_id' = next_id + 1
    /\ answer' = NoAnswer
    /\ UNCHANGED <<users, clock, sweep_vars>>

\* a text in WAITING_FOR_TIMES
get_medicine_time(u, text) ==
    /\ fsm_state[u] = "WAITING_FOR_TIMES"
    /\ IF ~TimesAreValid(text)
       THEN UNCHANGED <<fsm_vars, medicines, next_id>>
       ELSE LET data == [fsm_data[u] EXCEPT !.medicine_time = text]
            IN  IF ~CountsMatch(data.medicine_dosage, data.medicine_time)
                THEN /\ fsm_data' = [fsm_data EXCEPT ![u] = data]
                     /\ UNCHANGED <<fsm_state, medicines, next_id>>
                ELSE /\ medicines' = add_medicine(u, data.medicine_name,
                            data.medicine_dosage, data.medicine_dosage_unit,
                            data.medicine_quantity, data.medicine_time)
                     /\ next_id' = next_id + 1
                     /\ Clear(u)
    /\ answer' = NoAnswer
    /\ UNCHANGED <<users, clock, sweep_vars>>

\* get_medicines_for_user(user_id) is not empty
HasMedicines(u) == \E i \in DOMAIN medicines : medicines[i].user_id = u

\* /delete
delete_medicine_command_handler(u) ==
    /\ fsm_state[u] \notin AddMedicineStates \cup {"WAITING_FOR_LOCATION"}
    /\ fsm_state' = IF HasMedicines(u)
                    THEN [fsm_state EXCEPT
                            ![u] = "WAITING_FOR_MEDICINE_NAME_TO_DELETE"]
                    ELSE fsm_state
    /\ answer' = NoAnswer
    /\ UNCHANGED <<store_vars, fsm_data, clock, sweep_vars>>

\* a text in WAITING_FOR_MEDICINE_NAME_TO_DELETE
get_medicine_name_to_delete(u, text) ==
    /\ fsm_state[u] = "WAITING_FOR_MEDICINE_NAME_TO_DELETE"
    /\ medicines' = delete_medicine_by_name_and_user(u, text)
    /\ ev' = IF pc \in SendReminderPcs /\ ev.medicine_id \in DeletedRows(u, text)
             THEN [ev EXCEPT !.removed = TRUE] ELSE ev
    /\ answer' = [to |-> u, name |-> text,
                  kind |-> IF deleted_by_name_and_user(u, text)
                           THEN "deleted" ELSE "not_found"]
    /\ Clear(u)
    /\ UNCHANGED <<users, next_id, clock, pc, now_utc, snapshot, idx, slot,
                   now_user_tz, dosage_val, outbox, events, seen, last, warned>>

-----------------------------------------------------------------------------
(* The inputs of the model *)

\* medicine names typed by the users
Names == {"A"}

\* dose texts typed by the users: "1", "1, -1", "x"
DosageTexts == {<<"1">>, <<"1", ",", " ", "-", "1">>, <<"x">>}

\* unit texts typed by the users
UnitTexts == {"ml", "spoon"}

\* quantity texts typed by the users: "0", "2", "x"
QuantityTexts == {<<"0">>, <<"2">>, <<"x">>}

\* times texts typed by the users: "8:00", "08:00, 20:00", "8:60"
TimesTexts == {<<"8", ":", "0", "0">>,
               <<"0", "8", ":", "0", "0", ",", " ", "2", "0", ":", "0", "0">>,
               <<"8", ":", "6", "0">>}

\* what the location resolver returns
ResolverResults == {"Europe/Moscow", NoTimezone}

\* the clock values (UTC) at which sweeps of Spec start: 05:00 and 17:00,
\* i.e. 08:00 and 20:00 in Europe/Moscow
Instants == {5 * HourSeconds, 17 * HourSeconds}

\* the seconds from clock value c to the next time the clock reads t, at least
\* SleepSeconds away
ElapsedUntil(c, t) == SleepSeconds + ((t - c - SleepSeconds) % DaySeconds)

-----------------------------------------------------------------------------
(* The program from an empty database *)

\* now_utc before the first sweep
NoSweepYet == 0 - 1

\* the largest id the model hands out: the database may hold two records when
\* the task starts, and the dialogue creates MaxRecords more
MaxId == MaxRecords + 1 + 1

\* the scheduler_setup task as main creates it
SchedulerInit ==
    /\ pc = "now"
    /\ now_utc = NoSweepYet
    /\ snapshot = <<>>
    /\ idx = 1
    /\ slot = 0
    /\ now_user_tz = [hour |-> 0, minute |-> 0]
    /\ dosage_val = 0
    /\ outbox = <<>>
    /\ events = <<>>
    /\ seen = ""
    /\ ev = NoEvent
    /\ last = NoEvent
    /\ warned = [i \in 1..MaxId |-> 0]

Init ==
    /\ users = [u \in UserIds |-> NoTimezone]
    /\ medicines = [i \in {} |-> NoData]
    /\ next_id = 1
    /\ fsm_state = [u \in UserIds |-> NoState]
    /\ fsm_data = [u \in UserIds |-> NoData]
    /\ clock \in Instants
    /\ answer = NoAnswer
    /\ SchedulerInit

\* the steps of the scheduler_setup task
Scheduler ==
    \/ \E ok \in BOOLEAN : SweepStart(ok)
    \/ \E ok \in BOOLEAN : LookupTimezone(ok)
    \/ \E ok \in BOOLEAN : SendReminderMessage(ok)
    \/ \E ok \in BOOLEAN : GetMedicineInfo(ok)
    \/ \E ok \in BOOLEAN : DecrementQuantity(ok)
    \/ \E ok \in BOOLEAN : GetUpdatedInfo(ok)
    \/ \E ok \in BOOLEAN : SendDepletionWarning(ok)
    \/ \E ok \in BOOLEAN : DeleteDepleted(ok)

\* the chats that send messages in Spec
Chats == {1}

\* the handlers of the router, for the messages of the model; a chat sends a
\* command only when it has no dialogue open
Handlers ==
    \E u \in Chats :
        \/ fsm_state[u] = NoState /\ command_start_handler(u)
        \/ fsm_state[u] = NoState /\ timezone_command_handler(u)
        \/ \E tz \in ResolverResults : location_handler(u, tz)
        \/ fsm_state[u] = NoState /\ add_medicine_command_handler(u)
        \/ \E text \in Names : get_medicine_name(u, text)
        \/ \E text \in DosageTexts : get_medicine_dosage(u, text)
        \/ \E text \in UnitTexts : get_dosage_unit(u, text)
        \/ \E text \in UnitTexts : wrong_dosage_unit_handler(u, text)
        \/ \E text \in QuantityTexts : get_medicine_quantity(u, text)
        \/ \E text \in TimesTexts :
              next_id <= MaxRecords /\ get_medicine_time(u, text)
        \/ fsm_state[u] = NoState /\ delete_medicine_command_handler(u)
        \/ \E text \in Names : get_medicine_name_to_delete(u, text)

Next ==
    \/ Scheduler
    \/ \E t \in Instants : asyncio_sleep(ElapsedUntil(clock, t))
    \/ Handlers

Spec == Init /\ [][Next]_vars

-----------------------------------------------------------------------------
(* The sweep over a database that already holds records, with the clock    *)
(* running: SleepSeconds of sleep and the time the sweep itself took       *)

\* the seconds a sweep takes from reading the clock to reaching its sleep
SweepDurations == {0, 30}

\* the clock when the task starts: 04:58:00 UTC
StartClock == 4 * HourSeconds + 58 * 60

\* "1", "1, 2", "0.5", and a text that is no number
Dose1 == <<"1">>
DoseNoNumber == <<"x">>
Dose1and2 == <<"1", ",", " ", "2">>
DoseHalf == <<"0", ".", "5">>

\* "8:00", "8:00, 8:01", "08:00, 8:00", "10:30"
At0800 == <<"8", ":", "0", "0">>
At0800and0801 == <<"8", ":", "0", "0", ",", " ", "8", ":", "0", "1">>
At0800twice == <<"0", "8", ":", "0", "0", ",", " ", "8", ":", "0", "0">>
At1030 == <<"1", "0", ":", "3", "0">>

\* the records the database may hold when the task starts; the medicines table
\* puts no constraint on the dosage text, and record E holds one that the
\* dialogue of this version would not accept
StoredRows ==
    {NewRow(u, "A", Dose1, "ml", 2, At0800) : u \in UserIds}
    \cup {NewRow(u, "B", Dose1and2, "gr", 2, At0800and0801) : u \in UserIds}
    \cup {NewRow(1, "C", Dose1and2, "ml", 4, At0800twice),
          NewRow(1, "D", DoseHalf, "gr", 1, At1030),
          NewRow(1, "E", DoseNoNumber, "ml", 2, At0800),
          NewRow(1, "F", Dose1and2, "ml", 1, At0800twice)}

\* the timezone rows the database may hold: user 2 may have none
StoredUsers ==
    {[u \in UserIds |-> IF u = 1 THEN z1 ELSE z2] :
        z1 \in {"Europe/Moscow", "Asia/Kolkata"},
        z2 \in {"Europe/Moscow", NoTimezone}}

InitSweep ==
    /\ users \in StoredUsers
    /\ \E r1 \in StoredRows, r2 \in StoredRows : medicines = <<r1, r2>>
    /\ next_id = 3
    /\ fsm_state = [u \in UserIds |-> NoState]
    /\ fsm_data = [u \in UserIds |-> NoData]
    /\ clock = StartClock
    /\ answer = NoAnswer
    /\ SchedulerInit

NextSweep ==
    \/ Scheduler
    \/ \E d \in SweepDurations :
          /\ clock + SleepSeconds + d <= StartClock + 60 * MaxWindow
          /\ asyncio_sleep(SleepSeconds + d)

SpecSweep == InitSweep /\ [][NextSweep]_vars

-----------------------------------------------------------------------------
(* The owner of two stored records deletes them and adds a record again    *)
(* while the sweeps go on                                                   *)

\* the records the database holds when the task starts, both named "A"
StoredBefore ==
    <<NewRow(1, "A", Dose1, "ml", 2, At0800),
      NewRow(1, "A", Dose1, "gr", 1, At0800)>>

InitReadd ==
    /\ users = [u \in UserIds |-> IF u = 1 THEN "Europe/Moscow" ELSE NoTimezone]
    /\ medicines = StoredBefore
    /\ next_id = Len(StoredBefore) + 1
    /\ fsm_state = [u \in UserIds |-> NoState]
    /\ fsm_data = [u \in UserIds |-> NoData]
    /\ clock \in Instants
    /\ answer = NoAnswer
    /\ SchedulerInit

\* the delete dialogue and the add dialogue of the owner, with the texts
\* "A", "1", "ml", "2", "8:00"
HandlersReadd ==
    \E u \in Chats :
        \/ fsm_state[u] = NoState /\ delete_medicine_command_handler(u)
        \/ get_medicine_name_to_delete(u, "A")
        \/ fsm_state[u] = NoState /\ add_medicine_command_handler(u)
        \/ get_medicine_name(u, "A")
        \/ get_medicine_dosage(u, Dose1)
        \/ get_dosage_unit(u, "ml")
        \/ get_medicine_quantity(u, <<"2">>)
        \/ next_id <= Len(StoredBefore) + MaxRecords /\ get_medicine_time(u, At0800)

NextReadd ==
    \/ Scheduler
    \/ \E t \in Instants : asyncio_sleep(ElapsedUntil(clock, t))
    \/ HandlersReadd

SpecReadd == InitReadd /\ [][NextReadd]_vars

-----------------------------------------------------------------------------
(* The sweeps over one stored record whose dose texts end in zeros         *)

\* "1.50, 2.0, 10", ".0", "2.0" and the times "8:00, 8:01, 8:02"
DoseTrailing == <<"1", ".", "5", "0", ",", " ", "2", ".", "0", ",", " ", "1", "0">>
DosePointZero == <<".", "0">>
DoseTwoPointZero == <<"2", ".", "0">>
At0800to0802 == <<"8", ":", "0", "0", ",", " ", "8", ":", "0", "1", ",", " ",
                  "8", ":", "0", "2">>

\* the record the database holds when the task starts
StoredDoseRows ==
    {NewRow(1, "A", DoseTrailing, "ml", 4, At0800to0802),
     NewRow(1, "B", DosePointZero, "ml", 1, At0800),
     NewRow(1, "C", DoseTwoPointZero, "gr", 1, At0800and0801),
     NewRow(1, "D", DoseHalf, "gr", 1, At0800)}

InitDose ==
    /\ users \in StoredUsers
    /\ \E r \in StoredDoseRows : medicines = <<r>>
    /\ next_id = 2
    /\ fsm_state = [u \in UserIds |-> NoState]
    /\ fsm_data = [u \in UserIds |-> NoData]
    /\ clock = StartClock
    /\ answer = NoAnswer
    /\ SchedulerInit

SpecDose == InitDose /\ [][NextSweep]_vars

-----------------------------------------------------------------------------
(* An owner deletes records by name while the sweeps go on; another owner   *)
(* may have records of the same names                                      *)

\* the names the owners type in the delete dialogue
DeleteNames == {"A", "B"}

\* the records the database may hold when the task starts: both owners may
\* have records of either name
StoredOwned == {NewRow(u, n, Dose1, "ml", 2, At0800) : u \in UserIds, n \in DeleteNames}

InitDelete ==
    /\ users = [u \in UserIds |-> "Europe/Moscow"]
    /\ \E r1 \in StoredOwned, r2 \in StoredOwned : medicines = <<r1, r2>>
    /\ next_id = 3
    /\ fsm_state = [u \in UserIds |-> NoState]
    /\ fsm_data = [u \in UserIds |-> NoData]
    /\ clock \in Instants
    /\ answer = NoAnswer
    /\ SchedulerInit

\* the delete dialogue of the owner who writes to the bot
HandlersDelete ==
    \E u \in Chats :
        \/ fsm_state[u] = NoState /\ delete_medicine_command_handler(u)
        \/ \E text \in DeleteNames : get_medicine_name_to_delete(u, text)

NextDelete ==
    \/ Scheduler
    \/ \E t \in Instants : asyncio_sleep(ElapsedUntil(clock, t))
    \/ HandlersDelete

SpecDelete == InitDelete /\ [][NextDelete]_vars

-----------------------------------------------------------------------------
(* The dialogues alone, with commands sent at any point of a dialogue      *)

InitAdd ==
    /\ users \in [UserIds -> ResolverResults]
    /\ medicines = <<>>
    /\ next_id = 1
    /\ fsm_state = [u \in UserIds |-> NoState]
    /\ fsm_data = [u \in UserIds |-> NoData]
    /\ clock \in Instants
    /\ answer = NoAnswer
    /\ SchedulerInit

\* the handlers of the router for every message of the model in every state;
\* a second record may follow the first
HandlersAdd ==
    \E u \in Chats :
        \/ command_start_handler(u)
        \/ timezone_command_handler(u)
        \/ \E tz \in ResolverResults : location_handler(u, tz)
        \/ add_medicine_command_handler(u)
        \/ \E text \in Names : get_medicine_name(u, text)
        \/ \E text \in DosageTexts : get_medicine_dosage(u, text)
        \/ \E text \in UnitTexts : get_dosage_unit(u, text)
        \/ \E text \in UnitTexts : wrong_dosage_unit_handler(u, text)
        \/ \E text \in QuantityTexts : get_medicine_quantity(u, text)
        \/ \E text \in TimesTexts :
              next_id <= MaxRecords + 1 /\ get_medicine_time(u, text)
        \/ delete_medicine_command_handler(u)
        \/ \E text \in Names : get_medicine_name_to_delete(u, text)

SpecAdd == InitAdd /\ [][HandlersAdd]_vars

-----------------------------------------------------------------------------
(* Properties: depletion                                                   *)

\* a step in which a send_reminder call returns: the scheduler leaves the slot
\* of the call; last' is then the record of the call
EventEnds == pc \in SendReminderPcs /\ <<idx', slot'>> # <<idx, slot>>

\* the call that returns in this step sent its reminder for a record that was
\* present with a positive remaining quantity, and its dose is positive
SentForStockedRecord ==
    /\ EventEnds
    /\ last'.sent /\ last'.had /\ last'.before > 0 /\ last'.amount > 0

\* the call that returns in this step leaves the record with the dose taken
\* off, present if something remains, and otherwise absent with a depletion
\* warning sent to the owner
DepletionOutcome ==
    LET id == last'.medicine_id
        after == last'.before - last'.amount
    IN  IF after > 0
        THEN /\ id \in DOMAIN medicines'
             /\ medicines'[id].remaining_quantity = after
        ELSE /\ id \notin DOMAIN medicines'
             /\ \E i \in 1..Len(outbox') :
                    /\ outbox'[i].kind = "depleted"
                    /\ outbox'[i].medicine_id = id
                    /\ outbox'[i].to = snapshot[idx].user_id

\* an id that was given out and is absent stays absent
AbsentStaysAbsent ==
    \A id \in 1..(next_id - 1) :
        id \notin DOMAIN medicines => id \notin DOMAIN medicines'

C2_NoExhaustedRecord ==
    pc \notin SendReminderPcs \cup CrashedPcs =>
        \A id \in DOMAIN medicines : medicines[id].remaining_quantity > 0

\* C3 as stated: no step makes the remaining_quantity of a record larger than
\* it was.
C3_RemainingNeverGrows ==
    [][\A id \in DOMAIN medicines \cap DOMAIN medicines' :
          medicines'[id].remaining_quantity <= medicines[id].remaining_quantity]_vars

-----------------------------------------------------------------------------
(* Properties: the sweep                                                   *)

\* the minute of the day of UTC instant t in zone tz
LocalMinute(t, tz) == ((t \div 60) + UtcOffsetMinutes(tz)) % DayMinutes

\* the slots of a row whose reminder time is the local minute of instant t in
\* zone tz
DueSlots(row, tz, t) ==
    LET times == reminder_times(row.reminder_time)
    IN  {k \in 1..Len(times) :
            60 * times[k].hour + times[k].minute = LocalMinute(t, tz)}

\* the slots for which the sweep has called send_reminder in the record it is
\* at (or has just left)
FiredSlots == {events[j].slot : j \in 1..Len(events)}

\* C4 as stated: each sweep starts in the wall-clock minute that follows the
\* minute in which the sweep before it started, so that no minute is skipped
\* and none is swept twice (looked at here for the sweeps that read their
\* snapshot).
C4_OneSweepPerMinute ==
    [][(pc = "now" /\ pc' \in {"get_user_timezone", "sleep"} /\ now_utc # NoSweepYet)
          => now_utc' \div 60 = (now_utc \div 60) + 1]_vars

\* C5: a slot of a record is fired in a sweep iff its time is the hour and
\* minute of the sweep's UTC instant in the owner's zone: while the sweep is in
\* a send_reminder call of a record it has fired exactly the due slots up to
\* the one of the call, once each, and when it has left a record it has fired
\* exactly the due slots of the record, once each.
C5_TimezoneMatching ==
    /\ pc \in SendReminderPcs =>
          /\ users[Cur.user_id] # NoTimezone
          /\ FiredSlots = {k \in DueSlots(Cur, users[Cur.user_id], now_utc) :
                                k <= slot}
          /\ Len(events) = Cardinality(FiredSlots)
    /\ (pc \in {"get_user_timezone", "sleep"} /\ idx > 1) =>
          LET row == snapshot[idx - 1]
              tz == users[row.user_id]
          IN  /\ FiredSlots = IF tz = NoTimezone THEN {}
                              ELSE DueSlots(row, tz, now_utc)
              /\ Len(events) = Cardinality(FiredSlots)

\* the sweep of 05:00 UTC has left a record with the one time 8:00 whose owner
\* is in Europe/Moscow (UTC+3), and has fired it once
C5_Witness ==
    /\ pc \in {"get_user_timezone", "sleep"} /\ idx > 1
    /\ now_utc \div 60 = 5 * 60
    /\ snapshot[idx - 1].reminder_time = At0800
    /\ users[snapshot[idx - 1].user_id] = "Europe/Moscow"
    /\ Len(events) = 1

\* the dose text at the index of slot k of a row
DoseAt(row, k) == SplitStrip(row.dosage)[k]

\* C6: a reminder that is sent is for a slot whose time is the current local
\* minute of the owner and announces the dose at the index of that slot, and
\* the decrement of the store that follows takes off that same dose.
C6_MultiDoseMatching ==
    [][/\ (pc = "send_message" /\ outbox' # outbox) =>
             /\ slot \in DueSlots(Cur, users[Cur.user_id], now_utc)
             /\ Len(outbox') = Len(outbox) + 1
             /\ outbox'[Len(outbox')].slot = slot
             /\ float(outbox'[Len(outbox')].dose) = float(DoseAt(Cur, slot))
       /\ (pc = "decrement" /\ medicines' # medicines) =>
             /\ Cur.medicine_id \in DOMAIN medicines'
             /\ medicines'[Cur.medicine_id].remaining_quantity
                  = medicines[Cur.medicine_id].remaining_quantity
                        - float(DoseAt(Cur, slot)).val]_vars

\* the sweep of 08:01 local time is in the call for the second slot of a record
\* with doses 1, 2 and times 8:00, 8:01: the one reminder it sent announces 2
\* and the store has been lowered by 2
C6_Witness ==
    /\ pc = "get_updated" /\ slot = 2
    /\ Cur.dosage = Dose1and2 /\ Cur.reminder_time = At0800and0801
    /\ Len(outbox) = 1 /\ outbox[1].dose = <<"2">>
    /\ Cur.medicine_id \in DOMAIN medicines
    /\ medicines[Cur.medicine_id].remaining_quantity = ev.before - 2 * Scale

\* the records whose owner has no timezone
RecordsWithoutTimezone ==
    {id \in DOMAIN medicines : users[medicines[id].user_id] = NoTimezone}

\* C7: no step changes or removes a record whose owner has no timezone, no
\* message is sent for such a record, and when the sweep comes to such a
\* record and the timezone lookup itself does not fail, it goes on to the next
\* record, or to its sleep after the last one, with no call of send_reminder.
C7_MissingTimezone ==
    [][/\ \A id \in RecordsWithoutTimezone :
             id \in DOMAIN medicines' /\ medicines'[id] = medicines[id]
       /\ \A i \in 1..Len(outbox') : users[outbox'[i].to] # NoTimezone
       /\ (/\ pc = "get_user_timezone"
           /\ users[snapshot[idx].user_id] = NoTimezone
           /\ pc' # "store_error") =>
             /\ pc' = IF idx < Len(snapshot) THEN "get_user_timezone" ELSE "sleep"
             /\ idx' = idx + 1
             /\ events' = <<>>]_vars

\* the sweep has passed a first record whose owner has no timezone, left it as
\* it was created, and is sending the reminder of the second record
C7_Witness ==
    /\ pc = "send_message" /\ idx = 2
    /\ users[snapshot[1].user_id] = NoTimezone
    /\ snapshot[1].medicine_id \in DOMAIN medicines
    /\ medicines[snapshot[1].medicine_id].remaining_quantity
          = Scale * medicines[snapshot[1].medicine_id].doses_quantity

\* no reminder time of any row of snap is the local minute of its owner at t
NoSlotDue(snap, t) ==
    \A i \in 1..Len(snap) :
        \/ users[snap[i].user_id] = NoTimezone
        \/ DueSlots(snap[i], users[snap[i].user_id], t) = {}

\* C8: in a sweep in which no reminder time of any record is the current local
\* minute of its owner, no step changes the medicines or the users table and
\* no message is sent.
C8_NoOpSweep ==
    [][(pc' # "now" /\ NoSlotDue(snapshot', now_utc')) =>
          /\ medicines' = medicines
          /\ users' = users
          /\ outbox' = <<>>
          /\ warned' = warned]_vars

\* a sweep over two records whose owners have a timezone has reached its sleep
\* and none of their times was due
C8_Witness ==
    /\ pc = "sleep" /\ Len(snapshot) = 2 /\ idx = 3
    /\ \A i \in 1..Len(snapshot) : users[snapshot[i].user_id] # NoTimezone
    /\ NoSlotDue(snapshot, now_utc)
    /\ outbox = <<>>

-----------------------------------------------------------------------------
(* Properties: the records and the task                                    *)

\* C9: every record of the medicines table has as many comma-separated dose
\* amounts as comma-separated reminder times.
C9_CountsAgree ==
    \A id \in DOMAIN medicines :
        Len(SplitStrip(medicines[id].dosage))
            = Len(SplitStrip(medicines[id].reminder_time))

\* a record with two doses and two times has been created by the dialogue and
\* a sweep has taken a dose off it
C9_Witness ==
    \E id \in DOMAIN medicines :
        /\ Len(SplitStrip(medicines[id].dosage)) = 2
        /\ Len(SplitStrip(medicines[id].reminder_time)) = 2
        /\ medicines[id].remaining_quantity < Scale * medicines[id].doses_quantity

\* C10 as stated: a store call of the sweep that raises does not end the
\* scheduler task.
C10_SchedulerSurvives == pc # "store_error"

-----------------------------------------------------------------------------
(* Properties: failures and interleavings inside send_reminder             *)

\* the due slots of the record the sweep is at that come after the slot of
\* the call in progress
DueSlotsLeft ==
    {k \in DueSlots(Cur, users[Cur.user_id], now_utc) : k > slot}

\* the sweep goes on from the call in progress to the next due slot of the
\* same record, or else to the next record, or to its sleep after the last
SweepGoesOn ==
    IF DueSlotsLeft # {}
    THEN /\ pc' = "send_message"
         /\ idx' = idx
         /\ slot' = CHOOSE k \in DueSlotsLeft : \A j \in DueSlotsLeft : k <= j
    ELSE /\ pc' = IF idx < Len(snapshot) THEN "get_user_timezone" ELSE "sleep"
         /\ idx' = idx + 1

\* C11: no step of a send_reminder call ends the scheduler task, and when a
\* call returns because one of its steps failed (the reminder send, a fetch,
\* the decrement, the depletion-warning send or the delete) the sweep goes on
\* with the next due slot of the record, the next record or its sleep.
C11_FailIsolation ==
    [][(pc \in SendReminderPcs => pc' \notin CrashedPcs)
       /\ ((EventEnds /\ last'.raised # "") => SweepGoesOn)]_vars

\* a call whose decrement failed after its reminder was sent has returned, and
\* the sweep is in the call for the second due slot of the same record
C11_Witness ==
    /\ pc = "send_message" /\ slot = 2 /\ Len(events) = 2
    /\ last.sent /\ last.raised = "decrement_medicine_quantity"

\* the record of the send_reminder call in progress was removed by its owner
\* after the sweep read its snapshot, and is absent
RemovedUnderCall ==
    /\ pc \in SendReminderPcs
    /\ ev.removed \/ ~ev.had
    /\ ev.medicine_id \notin DOMAIN medicines

\* a step of the scheduler that treats the event as not found: the store is as
\* it was, no depletion warning is sent and the task does not end
TreatedAsNotFound ==
    /\ medicines' = medicines
    /\ warned' = warned
    /\ \A i \in 1..Len(outbox') : outbox'[i].kind # "depleted"
    /\ pc' \notin CrashedPcs

\* C12 as stated: once the owner has removed the record of a send_reminder
\* call, at whatever point of the call, no later step of the call changes the
\* store, sends a depletion warning or ends the task.
C12_DeletionToleratedAsStated ==
    [][(RemovedUnderCall /\ pc' # pc) => TreatedAsNotFound]_vars

\* C12, amended: the same when the removal comes before the second re-fetch
\* of the call, that is, for the steps of the call up to and including that
\* re-fetch; after such a removal the call never comes to send the warning.
C12_DeletionTolerated ==
    [][(RemovedUnderCall /\ pc' # pc
            /\ pc \in {"send_message", "get_medicine_by_id", "decrement",
                       "get_updated"})
          => (TreatedAsNotFound /\ pc' \notin {"send_warning", "delete_medicine"})]_vars

\* the owner removed the record during the call, after its reminder was sent
\* and its first re-fetch had found it, and the call has passed its decrement
C12_Witness ==
    /\ pc = "get_updated"
    /\ ev.sent /\ ev.had /\ ev.removed
    /\ ev.medicine_id \notin DOMAIN medicines

\* the sweep has left the record before position idx of its snapshot
LeftRecord == pc \in {"get_user_timezone", "sleep"} /\ idx > 1

FetchFindsExhausted ==
    /\ pc = "get_medicine_by_id"
    /\ Cur.medicine_id \in DOMAIN medicines
    /\ medicines[Cur.medicine_id].remaining_quantity <= 0

\* C14: when the re-fetch of send_reminder finds the record with
\* remaining_quantity <= 0, the call returns there: it does not decrement,
\* does not delete and sends no depletion warning, so the reminder is the only
\* message of the event.
C14_AlreadyExhausted ==
    [][(FetchFindsExhausted /\ pc' # pc) =>
          /\ EventEnds
          /\ medicines' = medicines
          /\ warned' = warned
          /\ outbox' = outbox
          /\ outbox[Len(outbox)].kind = "reminder"
          /\ outbox[Len(outbox)].slot = slot]_vars

\* a call that sent its reminder and found the record with nothing left has
\* returned with no failure: the record is still there, as it was, and no
\* warning has ever been sent for it
C14_Witness ==
    /\ last.sent /\ last.had /\ last.before <= 0 /\ last.raised = ""
    /\ last.medicine_id \in DOMAIN medicines
    /\ medicines[last.medicine_id].remaining_quantity = last.before
    /\ warned[last.medicine_id] = 0

\* C15 as stated: a record created with a positive quantity that an
\* interrupted depletion has left with remaining_quantity <= 0 is removed by
\* the next send_reminder call made for it: when such a call, in which nothing
\* fails and during which the owner does not delete the record, returns, the
\* record is absent.
C15_SelfCorrection ==
    [][(/\ EventEnds
        /\ last'.sent /\ last'.raised = "" /\ ~last'.removed
        /\ last'.had /\ last'.before <= 0
        /\ last'.medicine_id \in DOMAIN medicines
        /\ medicines[last'.medicine_id].doses_quantity > 0)
          => last'.medicine_id \notin DOMAIN medicines']_vars

-----------------------------------------------------------------------------
(* Properties: the single scheduler task                                   *)

\* the scheduler is Sweeping from the moment it reads the clock until it
\* reaches its sleep, and Idle otherwise
Sweeping == pc \in SendReminderPcs \cup {"get_user_timezone"}

\* what holds of the task in every state: a send_reminder call is in progress
\* exactly when the task is at one of its awaits, the call is then the one of
\* the record and slot the sweep is at, and the task sleeps only when it has
\* gone through every record of its snapshot
OneSweepAtATime ==
    /\ pc \in SendReminderPcs <=> ev # NoEvent
    /\ pc \in SendReminderPcs =>
          /\ idx \in 1..Len(snapshot)
          /\ ev.medicine_id = snapshot[idx].medicine_id
          /\ events[Len(events)].slot = slot
    /\ pc = "sleep" => idx = Len(snapshot) + 1

\* what holds of every step: the task becomes Idle only from the end of a
\* sweep, reads a new clock value and a new snapshot only when Idle, and goes
\* through the records of the snapshot one by one
SweepsInTurn ==
    /\ (pc' = "now" /\ pc # "now") => pc = "sleep"
    /\ now_utc' # now_utc => pc = "now"
    /\ snapshot' # snapshot => pc \in {"now", "sleep"}
    /\ (Sweeping /\ idx' # idx) => idx' = idx + 1

\* C16: sweeps never overlap: a sweep starts only after the one before it has
\* gone through its whole snapshot and slept, whatever the handlers do in
\* between, and at most one send_reminder call is in progress.
C16_NoOverlap == []OneSweepAtATime /\ [][SweepsInTurn]_vars

\* the owner's delete dialogue has removed a record while the sweep was in the
\* send_reminder call for it, between the first re-fetch and the decrement
C16_Witness == pc = "decrement" /\ ev.removed

\* C17: a send_reminder call attempts its reminder once; when that send fails
\* the call returns at once, with the record, the warnings and the messages as
\* they were, and the sweep goes on; a call is past its send only if the
\* reminder was sent, and no slot of a record is called twice in one sweep.
C17_NoRetryNoSideEffect ==
    [][/\ pc \in SendReminderPcs \ {"send_message"} => ev.sent
       /\ (pc = "send_message" /\ EventEnds) =>
             /\ last'.raised = "send_message" /\ ~last'.sent
             /\ medicines' = medicines
             /\ warned' = warned
             /\ outbox' = outbox
             /\ SweepGoesOn
       /\ Len(events') = Cardinality({events'[j].slot : j \in 1..Len(events')})]_vars

\* a sweep has reached its sleep after the reminder send of its last call
\* failed: the record of the call is as it was when the call began
C17_Witness ==
    /\ pc = "sleep"
    /\ last.raised = "send_message" /\ ~last.sent /\ last.had
    /\ last.medicine_id \in DOMAIN medicines
    /\ medicines[last.medicine_id].remaining_quantity = last.before

-----------------------------------------------------------------------------
(* Properties: record identifiers                                           *)

\* a step of the scheduler task that writes the medicines table
SchedulerWrites ==
    /\ medicines' # medicines
    /\ fsm_state' = fsm_state
    /\ fsm_data' = fsm_data

\* the records other than the one the reminder call is about stay as they are
OthersUntouched ==
    /\ DOMAIN medicines' \ {ev.medicine_id} = DOMAIN medicines \ {ev.medicine_id}
    /\ \A id \in DOMAIN medicines \ {ev.medicine_id} : medicines'[id] = medicines[id]

\* the record under the call's id is the one the sweep matched
SameRecordAsMatched ==
    /\ ev.medicine_id = Cur.medicine_id
    /\ ev.medicine_id \in DOMAIN medicines =>
          /\ medicines[ev.medicine_id].user_id = Cur.user_id
          /\ medicines[ev.medicine_id].name = Cur.name
          /\ medicines[ev.medicine_id].dosage = Cur.dosage
          /\ medicines[ev.medicine_id].reminder_time = Cur.reminder_time

\* C18: a record identifier is never handed out twice: a new record gets an
\* identifier larger than every identifier ever used, a removed identifier
\* stays absent, and a write of the scheduler goes to the record its sweep
\* matched and to no other, so never to a record the owner added after
\* removing the matched one
C18_IdsNeverReused ==
    [][/\ next_id' >= next_id
       /\ \A id \in DOMAIN medicines' : id < next_id'
       /\ \A id \in DOMAIN medicines' \ DOMAIN medicines : id >= next_id
       /\ \A id \in 1..(next_id - 1) :
              id \notin DOMAIN medicines => id \notin DOMAIN medicines'
       /\ SchedulerWrites =>
              /\ pc \in SendReminderPcs
              /\ SameRecordAsMatched
              /\ OthersUntouched]_vars

\* a reminder call whose record the owner removed and then added again under
\* the same name; the new record has a larger id and its full quantity
C18_Witness ==
    /\ pc = "get_updated"
    /\ ev.removed
    /\ ev.medicine_id \notin DOMAIN medicines
    /\ \E id \in DOMAIN medicines :
          /\ id > ev.medicine_id
          /\ medicines[id].name = Cur.name
          /\ medicines[id].user_id = Cur.user_id
          /\ medicines[id].remaining_quantity = Scale * medicines[id].doses_quantity

-----------------------------------------------------------------------------
(* Properties: the values the dialogue stores                               *)

\* the dose amounts of a record, in hundredths
DoseAmounts(row) ==
    LET dosages == SplitStrip(row.dosage)
    IN  {float(dosages[i]).val : i \in 1..Len(dosages)}

\* C19: every record the add dialogue inserted has a total quantity of at
\* least 1 and dose texts that are all numbers greater than 0
C19_StoredValuesValid ==
    \A id \in DOMAIN medicines :
        /\ medicines[id].doses_quantity >= 1
        /\ \A i \in 1..Len(SplitStrip(medicines[id].dosage)) :
               float(SplitStrip(medicines[id].dosage)[i]).ok
        /\ \A amount \in DoseAmounts(medicines[id]) : amount > 0

-----------------------------------------------------------------------------
(* Properties: the dose in the reminder text                                *)

\* how many "0" characters end the text t
TrailingZeros(t) ==
    CHOOSE n \in 0..Len(t) :
        /\ \A i \in (Len(t) - n + 1)..Len(t) : t[i] = "0"
        /\ n = Len(t) \/ t[Len(t) - n] # "0"

\* the text t without its trailing zeros and then without a trailing point
WithoutNoise(t) ==
    LET a == SubSeq(t, 1, Len(t) - TrailingZeros(t))
    IN  IF a # <<>> /\ a[Len(a)] = "." THEN SubSeq(a, 1, Len(a) - 1) ELSE a

\* the dose as the reminder text is to state it
StatedDose(t) == IF \E i \in 1..Len(t) : t[i] = "." THEN WithoutNoise(t) ELSE t

\* C20: the reminder states the dose of its slot without trailing zeros and
\* without a trailing point when the dose text has a point ("1.50" as "1.5",
\* "2.0" as "2"), and unchanged when it has none ("10" as "10"); the
\* decrement takes off the value of the dose text as stored
C20_DoseTrimmed ==
    [][/\ (pc = "send_message" /\ outbox' # outbox) =>
             /\ outbox'[Len(outbox')].dose = StatedDose(medicine_dosage)
             /\ medicine_dosage = <<"1", ".", "5", "0">> =>
                    outbox'[Len(outbox')].dose = <<"1", ".", "5">>
             /\ medicine_dosage = <<"2", ".", "0">> =>
                    outbox'[Len(outbox')].dose = <<"2">>
             /\ medicine_dosage = <<"1", "0">> =>
                    outbox'[Len(outbox')].dose = <<"1", "0">>
       /\ (pc = "decrement" /\ medicines' # medicines) =>
             medicines'[Cur.medicine_id].remaining_quantity
                 = medicines[Cur.medicine_id].remaining_quantity
                     - float(medicine_dosage).val]_vars

\* the reminder of the dose "1.50" was sent as "1.5" and the decrement that
\* followed took off 1.5
C20_Witness ==
    /\ pc = "get_updated"
    /\ medicine_dosage = <<"1", ".", "5", "0">>
    /\ outbox # <<>>
    /\ outbox[Len(outbox)].kind = "reminder"
    /\ outbox[Len(outbox)].dose = <<"1", ".", "5">>
    /\ Cur.medicine_id \in DOMAIN medicines
    /\ medicines[Cur.medicine_id].remaining_quantity
           = ev.before - (Scale + Scale \div 2)

-----------------------------------------------------------------------------
(* Properties: deletion by name                                             *)

\* the step of get_medicine_name_to_delete for the chat it answers
DeleteByNameStep ==
    /\ answer'.to \in UserIds
    /\ fsm_state[answer'.to] = "WAITING_FOR_MEDICINE_NAME_TO_DELETE"
    /\ fsm_state'[answer'.to] = NoState

\* the records of an owner under a name
OwnedAndNamed(user_id, name) ==
    {id \in DOMAIN medicines :
        medicines[id].user_id = user_id /\ medicines[id].name = name}

\* C21: deleting by owner and name reports success exactly when a record of
\* that owner with that name existed; it removes all of those records and no
\* other, and leaves the records of other owners, those of the same name
\* included, and the owner's records of other names as they were
C21_DeleteByNameFrame ==
    [][DeleteByNameStep =>
          LET matching == OwnedAndNamed(answer'.to, answer'.name)
          IN  /\ answer'.kind = "deleted" <=> matching # {}
              /\ answer'.kind = "not_found" <=> matching = {}
              /\ DOMAIN medicines' = DOMAIN medicines \ matching
              /\ \A id \in DOMAIN medicines' : medicines'[id] = medicines[id]
              /\ users' = users
              /\ next_id' = next_id]_vars

\* the owner's record was removed while a record of the same name of another
\* owner is still there
C21_Witness ==
    /\ answer.kind = "deleted"
    /\ \A id \in DOMAIN medicines :
          ~(medicines[id].user_id = answer.to /\ medicines[id].name = answer.name)
    /\ \E id \in DOMAIN medicines :
          /\ medicines[id].user_id # answer.to
          /\ medicines[id].name = answer.name
          /\ medicines[id].remaining_quantity = Scale * medicines[id].doses_quantity

-----------------------------------------------------------------------------
(* Properties: the order of decrement, warning and deletion                 *)

\* the record of the call in progress, as the store has it, is exhausted by
\* the decrement of this call
ExhaustedByThisCall ==
    /\ HasMedicine(Cur.medicine_id)
    /\ medicines[Cur.medicine_id].remaining_quantity <= 0
    /\ ev.before > 0
    /\ medicines[Cur.medicine_id].remaining_quantity = ev.before - dosage_val

\* the last message of the call in progress is its depletion warning
WarningOfThisCall(box) ==
    /\ box # <<>>
    /\ box[Len(box)].kind = "depleted"
    /\ box[Len(box)].to = Cur.user_id
    /\ box[Len(box)].medicine_id = Cur.medicine_id
    /\ box[Len(box)].slot = slot

\* a step of the scheduler task that removes a record
SchedulerRemoves ==
    /\ DOMAIN medicines' # DOMAIN medicines
    /\ fsm_state' = fsm_state

\* C22: a call goes to its depletion warning only from a re-fetch that found
\* the record exhausted by the decrement of this call; it goes to its delete
\* only from a warning that was sent to the owner; and the scheduler removes
\* a record only in the delete of such a call, the record being the one of
\* the call, its remaining quantity at most 0 and its owner the one warned
C22_DepletionOrdering ==
    [][/\ (pc' = "send_warning" /\ pc # "send_warning") =>
             (pc = "get_updated" /\ ExhaustedByThisCall)
       /\ (pc' = "delete_medicine" /\ pc # "delete_medicine") =>
             /\ pc = "send_warning"
             /\ Len(outbox') = Len(outbox) + 1
             /\ WarningOfThisCall(outbox')
             /\ <<idx', slot'>> = <<idx, slot>>
       /\ SchedulerRemoves =>
             /\ pc = "delete_medicine"
             /\ WarningOfThisCall(outbox)
             /\ DOMAIN medicines' = DOMAIN medicines \ {Cur.medicine_id}
             /\ medicines[Cur.medicine_id].remaining_quantity <= 0
             /\ medicines[Cur.medicine_id].user_id = Cur.user_id
             /\ \A id \in DOMAIN medicines' : medicines'[id] = medicines[id]]_vars

\* a call that decremented its record to 0, warned the owner and removed the
\* record has returned
C22_Witness ==
    /\ last.sent /\ last.had /\ ~last.removed
    /\ last.raised = ""
    /\ last.before > 0
    /\ last.medicine_id \notin DOMAIN medicines
    /\ outbox # <<>>
    /\ outbox[Len(outbox)].kind = "depleted"
    /\ outbox[Len(outbox)].medicine_id = last.medicine_id
    /\ warned[last.medicine_id] = 1

-----------------------------------------------------------------------------
(* Properties: the depletion warning is not repeated                        *)

\* C23: no record id gets more than one depletion warning
C23_OneWarningPerRecord == \A id \in DOMAIN warned : warned[id] <= 1

\* a record with two slots in the same minute was exhausted and warned about
\* in the call of the first slot, the delete of that call failed, and the
\* call of the second slot has returned without a second warning
C23_Witness ==
    /\ Len(events) = 2
    /\ pc \in {"get_user_timezone", "sleep"}
    /\ last.sent /\ last.had /\ last.raised = ""
    /\ last.before <= 0
    /\ last.medicine_id \in DOMAIN medicines
    /\ warned[last.medicine_id] = 1

-----------------------------------------------------------------------------
(* Properties: what the sweep and the handlers write                        *)

\* a step that leaves every dialogue as it is: a step of the scheduler task
\* when the store changes (a handler that writes the store moves its dialogue)
DialoguesUnchanged == fsm_state' = fsm_state /\ fsm_data' = fsm_data

\* the fields of a record other than remaining_quantity
Particulars(row) ==
    <<row.user_id, row.name, row.dosage, row.dosage_unit, row.doses_quantity,
      row.reminder_time>>

\* the call in progress is for a slot of its record that is due in this sweep
CallIsDue ==
    /\ pc \in SendReminderPcs
    /\ users[Cur.user_id] # NoTimezone
    /\ slot \in DueSlots(Cur, users[Cur.user_id], now_utc)

\* what a step of the scheduler may do to the store: lower remaining_quantity
\* of the due record of the call in progress, or remove that record
SweepWritesOnly(lowered(_, _)) ==
    /\ users' = users
    /\ next_id' = next_id
    /\ DOMAIN medicines' \subseteq DOMAIN medicines
    /\ \A id \in DOMAIN medicines' :
          /\ Particulars(medicines'[id]) = Particulars(medicines[id])
          /\ \/ medicines'[id].remaining_quantity = medicines[id].remaining_quantity
             \/ lowered(medicines'[id].remaining_quantity,
                        medicines[id].remaining_quantity)
    /\ \A id \in DOMAIN medicines :
          (id \notin DOMAIN medicines' \/ medicines'[id] # medicines[id]) =>
              (CallIsDue /\ id = Cur.medicine_id)

\* what a handler never does: change remaining_quantity of a record that exists
HandlersKeepRemaining ==
    \A id \in DOMAIN medicines \cap DOMAIN medicines' :
        medicines'[id].remaining_quantity = medicines[id].remaining_quantity

Lower(after, before) == after < before
Other(after, before) == after # before

\* C24: a step of the sweep only lowers remaining_quantity of the due record
\* of its call or removes that record; it changes no other field and no other
\* record, creates no record and does not write the users table. A handler
\* does not change remaining_quantity of an existing record.
C24_SweepFrame ==
    [][/\ (DialoguesUnchanged /\ pc # "sleep") => SweepWritesOnly(Lower)
       /\ ~DialoguesUnchanged => HandlersKeepRemaining]_vars

\* the same with any change of remaining_quantity allowed in place of a lower
\* value
SweepFrameButForDirection ==
    [][/\ (DialoguesUnchanged /\ pc # "sleep") => SweepWritesOnly(Other)
       /\ ~DialoguesUnchanged => HandlersKeepRemaining]_vars

-----------------------------------------------------------------------------
(* Properties: reminder times that repeat                                   *)

\* the dose of slot k of a row: the dose at the slot's index, the last dose
\* when the row has fewer doses than times
SlotDose(row, k) ==
    LET dosages == SplitStrip(row.dosage)
    IN  IF k <= Len(dosages) THEN dosages[k] ELSE dosages[Len(dosages)]

\* the calls made so far for the record the sweep is at are for due slots, in
\* slot order, each with the dose of its slot
CallsInSlotOrder ==
    Len(events) > 0 =>
        LET row == snapshot[IF pc \in SendReminderPcs THEN idx ELSE idx - 1]
            due == DueSlots(row, users[row.user_id], now_utc)
        IN  /\ \A j \in 1..Len(events) :
                  /\ events[j].slot \in due
                  /\ events[j].dose = SlotDose(row, events[j].slot)
                  /\ \A k \in due : k < events[j].slot =>
                        \E h \in 1..(j - 1) : events[h].slot = k
            /\ \A j \in 1..(Len(events) - 1) : events[j].slot < events[j + 1].slot

\* when the sweep has left a record, every due slot of it had its call
EveryDueSlotCalled ==
    LeftRecord =>
        LET row == snapshot[idx - 1]
            tz == users[row.user_id]
        IN  tz # NoTimezone =>
                FiredSlots = DueSlots(row, tz, now_utc)

\* a decrement works on the row as the table has it at that moment, and a
\* call whose record is gone writes nothing
DecrementsAccumulate ==
    /\ (pc = "decrement" /\ medicines' # medicines) =>
          /\ Cur.medicine_id \in DOMAIN medicines'
          /\ medicines'[Cur.medicine_id].remaining_quantity
                = medicines[Cur.medicine_id].remaining_quantity
                     - float(SlotDose(Cur, slot)).val
    /\ (pc \in SendReminderPcs /\ Cur.medicine_id \notin DOMAIN medicines) =>
          /\ medicines' = medicines
          /\ users' = users
          /\ next_id' = next_id

\* C25: the slots of a record that carry the same time are not merged: each
\* due slot gets its own call, in slot order, with the dose of its slot; the
\* decrements of the calls add up; after a call removed the record the later
\* calls of the sweep write nothing
C25_DuplicateTimes ==
    /\ [](CallsInSlotOrder /\ EveryDueSlotCalled)
    /\ [][DecrementsAccumulate]_vars

\* a sweep went over two records that each have the time 08:00 twice: the
\* first lost 1 and then 2 of its 4, the second was exhausted and removed by
\* the call of its first slot and the call of its second slot found nothing
C25_Witness ==
    /\ pc = "sleep"
    /\ Len(snapshot) = 2
    /\ snapshot[1].reminder_time = At0800twice
    /\ snapshot[2].reminder_time = At0800twice
    /\ snapshot[1].remaining_quantity = 4 * Scale
    /\ 1 \in DOMAIN medicines
    /\ medicines[1].remaining_quantity = Scale
    /\ FiredSlots = {1, 2}
    /\ last.medicine_id = 2
    /\ last.sent /\ ~last.had /\ last.raised = ""
    /\ 2 \notin DOMAIN medicines
    /\ warned[2] = 1

-----------------------------------------------------------------------------
(* Properties: the add dialogue                                             *)

\* the place of a dialogue state in the add dialogue, 0 outside it
AddStage(s) ==
    CASE s = "WAITING_FOR_NAME" -> 1
      [] s = "WAITING_FOR_DOSAGE" -> 2
      [] s = "WAITING_FOR_DOSAGE_UNIT" -> 3
      [] s = "WAITING_FOR_QUANTITY" -> 4
      [] s = "WAITING_FOR_TIMES" -> 5
      [] OTHER -> 0

\* the records a step inserts
Inserted == DOMAIN medicines' \ DOMAIN medicines

\* the add dialogue of chat u moves one stage at a time, each stage taking a
\* value that passed its test and keeping the values taken before
StagesInOrder(u) ==
    LET s == AddStage(fsm_state[u])
        t == AddStage(fsm_state'[u])
        old == fsm_data[u]
        new == fsm_data'[u]
    IN  /\ t \notin {0, 1, s} => t = s + 1
        /\ (s = 2 /\ t = 3) => DosagesAreNumbers(new.medicine_dosage)
        /\ (s = 3 /\ t = 4) => new.medicine_dosage_unit \in DosageUnits
        /\ (s = 4 /\ t = 5) => new.medicine_quantity >= 0
        /\ (s >= 2 /\ t \in {s, s + 1}) => new.medicine_name = old.medicine_name
        /\ (s >= 3 /\ t \in {s, s + 1}) => new.medicine_dosage = old.medicine_dosage
        /\ (s >= 4 /\ t \in {s, s + 1}) =>
              new.medicine_dosage_unit = old.medicine_dosage_unit
        /\ (s = 5 /\ t = 5) => new.medicine_quantity = old.medicine_quantity

\* a record is inserted only from WAITING_FOR_TIMES, one at a time, from the
\* values the dialogue took, all of which pass their tests, and the dialogue
\* is cleared
InsertOnlyWhenComplete(u) ==
    Inserted # {} =>
        /\ Cardinality(Inserted) = 1
        /\ fsm_state[u] = "WAITING_FOR_TIMES"
        /\ \A id \in Inserted :
              LET row == medicines'[id]
                  data == fsm_data[u]
              IN  /\ row = NewRow(u, data.medicine_name, data.medicine_dosage,
                                  data.medicine_dosage_unit, data.medicine_quantity,
                                  row.reminder_time)
                  /\ DosagesAreNumbers(row.dosage)
                  /\ row.dosage_unit \in DosageUnits
                  /\ row.doses_quantity >= 0
                  /\ TimesAreValid(row.reminder_time)
                  /\ Len(SplitStrip(row.dosage)) = Len(SplitStrip(row.reminder_time))
        /\ \A id \in DOMAIN medicines :
              id \in DOMAIN medicines' /\ medicines'[id] = medicines[id]
        /\ fsm_state'[u] = NoState
        /\ fsm_data'[u] = NoData

\* a text that fails the test of its stage inserts nothing and leaves the
\* dialogue in its state
RejectedKeepsState(u) ==
    LET rejected ==
            \/ \E text \in DosageTexts :
                  get_medicine_dosage(u, text) /\ ~DosagesAreNumbers(text)
            \/ \E text \in UnitTexts :
                  /\ fsm_state[u] = "WAITING_FOR_DOSAGE_UNIT"
                  /\ text \notin DosageUnits
                  /\ wrong_dosage_unit_handler(u, text)
            \/ \E text \in QuantityTexts :
                  get_medicine_quantity(u, text) /\ ~isdigit(text)
            \/ \E text \in TimesTexts :
                  /\ get_medicine_time(u, text)
                  /\ \/ ~TimesAreValid(text)
                     \/ Len(SplitStrip(text))
                           # Len(SplitStrip(fsm_data[u].medicine_dosage))
    IN  rejected => (fsm_state'[u] = fsm_state[u] /\ medicines' = medicines)

-----------------------------------------------------------------------------
(* Properties: owners have a timezone                                       *)

\* every record belongs to an owner with a row in users
OwnersHaveTimezone ==
    \A id \in DOMAIN medicines : users[medicines[id].user_id] # NoTimezone

\* a timezone row is never removed, and the sweep finds a timezone for every
\* record it looks one up for
TimezoneStays ==
    /\ \A u \in UserIds : users[u] # NoTimezone => users'[u] # NoTimezone
    /\ (pc = "get_user_timezone" /\ pc' \notin CrashedPcs /\ seen' # seen) =>
          seen' # NoTimezone
    /\ \A u \in UserIds :
          (AddStage(fsm_state'[u]) = 1 /\ AddStage(fsm_state[u]) # 1) =>
              users[u] # NoTimezone

\* C27: every record of the medicines table belongs to an owner who has a
\* timezone: /add opens the dialogue only for such an owner, a timezone is
\* set or replaced and never removed, and the sweep never skips a record
\* for want of a timezone
C27_OwnersHaveTimezone ==
    /\ [](OwnersHaveTimezone /\ seen # NoTimezone)
    /\ [][TimezoneStays]_vars

\* the sweep found the timezone of the owner of a record made by the dialogue
\* and is in the call of its due slot
C27_Witness ==
    /\ pc = "send_message"
    /\ seen = "Europe/Moscow"
    /\ Cur.medicine_id \in DOMAIN medicines
    /\ users[medicines[Cur.medicine_id].user_id] = seen

====
